---- MODULE Spec2Model ----
(***************************************************************************)
(* Multi-chain balance aggregation of src/lib/token.ts: getBalance (native *)
(* balances of the four chains) and getTokenBalance (ERC-20 balances,      *)
(* routed by chain).  Provider calls are asynchronous: a request is        *)
(* issued, stays in flight, is answered by the provider with a value or an *)
(* error, and the awaiting call is resumed afterwards.                     *)
(*                                                                         *)
(* Numbers.  A BigNumber is represented by its decimal digit string (a     *)
(* sequence of one-character strings), a JavaScript string by its          *)
(* characters, and a JavaScript number by its canonical decimal expansion. *)
(* The provider amounts drawn below have at most 15 significant digits, so *)
(* parseFloat is exact on them, and none lies on a rounding tie of         *)
(* toFixed(5).                                                             *)
(***************************************************************************)
EXTENDS Integers, Sequences, FiniteSets, TLC

VARIABLES
    scenario,                \* the environment of the run: "single" | "wide" | "pair"
    budget,                  \* invocations the environment still makes
    \* ---- getBalance (one call)
    gbPc,                    \* "idle" | "await" | "done" | "failed"
    gbIx,                    \* the await the call is suspended at (1..4)
    nativeReq,               \* [Chain -> request]: the provider's getBalance requests
    gbBalances,              \* [Chain -> BigNumber]: ethBalance, arbBalance, ...
    networkBalances,         \* the record getBalance returned (<<>>: nothing returned)
    gbError,                 \* the error getBalance threw ("": none)
    \* ---- getTokenBalance (per call)
    tokenContractAddresses,  \* [Calls -> the argument]
    chainTokens,             \* [Calls -> [Chain -> Seq(address)]]: ethereumTokens, ...
    pc,                      \* [Calls -> "idle" | "await" | "done" | "failed"]
    chainIx,                 \* [Calls -> the chain block (1..4) the call is suspended in]
    result,                  \* [Calls -> the accumulating local `result`]
    returned,                \* [Calls -> the sequence the call returned]
    error,                   \* [Calls -> the error message the call threw ("": none)]
    batchReq,                \* [Calls -> [BatchChains -> request]]: getTokenBalances requests
    avaxReq                  \* [Calls -> Seq of [bal: request, dec: request]]

gbVars == <<gbPc, gbIx, nativeReq, gbBalances, networkBalances, gbError>>
tbVars == <<tokenContractAddresses, chainTokens, pc, chainIx, result, returned,
            error, batchReq, avaxReq>>
vars == <<scenario, budget, gbVars, tbVars>>

----------------------------------------------------------------------------
(* Bounds *)

\* Longest token reference list passed to getTokenBalance.
MaxTokens == 3

\* Longest list when the providers answer from the wide sets of amounts.
MaxWideTokens == 2

\* Most token references two interleaved calls are passed together.
MaxPairTokens == 2

\* The environments of a run: one call with the narrow answer
\* sets, one call with the wide answer sets, or two interleaved calls.
Scenarios == {"single", "wide", "pair"}

\* Concurrent callers of getTokenBalance the model distinguishes.
Calls == {1, 2}

----------------------------------------------------------------------------
(* Chains *)

Chain == {"Ethereum", "Arbitrum", "Optimism", "Avalanche"}

\* The order in which both operations handle the chains.
ChainOrder == <<"Ethereum", "Arbitrum", "Optimism", "Avalanche">>

\* Chains served by the provider's batched getTokenBalances.
BatchChains == {"Ethereum", "Arbitrum", "Optimism"}

\* Keys of AccountCurrentBalance, by chain.
BalanceKey == [ch \in Chain |->
    CASE ch = "Ethereum" -> "eth"
      [] ch = "Arbitrum" -> "arb"
      [] ch = "Optimism" -> "op"
      [] OTHER           -> "avax"]

----------------------------------------------------------------------------
(* Strings of digits *)

Digit == {"0", "1", "2", "3", "4", "5", "6", "7", "8", "9"}

DigitChars == <<"0", "1", "2", "3", "4", "5", "6", "7", "8", "9">>

DigitVal == [d \in Digit |-> (CHOOSE i \in 1..10 : DigitChars[i] = d) - 1]

Zeros(n) == [i \in 1..n |-> "0"]

RECURSIVE StripTrailingZeros(_)
StripTrailingZeros(s) ==
    IF Len(s) > 0 /\ s[Len(s)] = "0"
    THEN StripTrailingZeros(SubSeq(s, 1, Len(s) - 1))
    ELSE s

RECURSIVE StripLeadingZeros(_)
StripLeadingZeros(s) ==
    IF Len(s) > 1 /\ s[1] = "0" THEN StripLeadingZeros(Tail(s)) ELSE s

\* The digit string of n + 1.
RECURSIVE Incr(_)
Incr(s) ==
    IF s = <<>> THEN <<"1">>
    ELSE LET last == s[Len(s)]
             init == SubSeq(s, 1, Len(s) - 1)
         IN IF last = "9" THEN Incr(init) \o <<"0">>
            ELSE init \o <<DigitChars[DigitVal[last] + 2]>>

\* The decimal digits of a natural number.
RECURSIVE IntToChars(_)
IntToChars(n) ==
    IF n < 10 THEN <<DigitChars[n + 1]>>
    ELSE IntToChars(n \div 10) \o <<DigitChars[(n % 10) + 1]>>

\* Position of the decimal point in a string, 0 when it has none.
PointAt(s) ==
    IF \E i \in 1..Len(s) : s[i] = "."
    THEN CHOOSE i \in 1..Len(s) : s[i] = "."
    ELSE 0

WholePart(s) == IF PointAt(s) = 0 THEN s ELSE SubSeq(s, 1, PointAt(s) - 1)

FracPart(s) == IF PointAt(s) = 0 THEN <<>> ELSE SubSeq(s, PointAt(s) + 1, Len(s))

----------------------------------------------------------------------------
(* Conversions *)

\* Fractional digits of formatEther.
EtherDecimals == 18

\* Fractional digits getBalance asks toFixed for.
FixedDigits == 5

\* Number.prototype.toFixed switches to Number::toString from 10^21 on,
\* a number whose whole part has 22 digits.
ToFixedLimitDigits == 22

\* ethers.utils.formatUnits(value, decimals): value / 10^decimals as a
\* string, the fraction stripped of trailing zeros but never empty.
formatUnits(value, decimals) ==
    LET padded == IF Len(value) < decimals + 1
                  THEN Zeros(decimals + 1 - Len(value)) \o value
                  ELSE value
        whole == SubSeq(padded, 1, Len(padded) - decimals)
        stripped == StripTrailingZeros(
                        SubSeq(padded, Len(padded) - decimals + 1, Len(padded)))
        fraction == IF stripped = <<>> THEN <<"0">> ELSE stripped
    IN IF decimals = 0 THEN whole ELSE whole \o <<".">> \o fraction

\* utils.formatEther(value)
formatEther(value) == formatUnits(value, EtherDecimals)

\* parseFloat(s) of a string whole[.fraction]: the number, as its canonical
\* decimal expansion (no leading zeros, no trailing fractional zeros).
parseFloat(s) ==
    LET whole == StripLeadingZeros(WholePart(s))
        frac == StripTrailingZeros(FracPart(s))
    IN IF frac = <<>> THEN whole ELSE whole \o <<".">> \o frac

\* Number::toString of a number of at least 10^21: exponential notation.
NumberToStringLarge(x) ==
    LET sig == StripTrailingZeros(WholePart(x) \o FracPart(x))
        e == Len(WholePart(x)) - 1
    IN <<sig[1]>>
       \o (IF Len(sig) > 1 THEN <<".">> \o Tail(sig) ELSE <<>>)
       \o <<"e", "+">> \o IntToChars(e)

\* Number.prototype.toFixed(fractionDigits) of a non-negative number x.
toFixed(x, fractionDigits) ==
    IF Len(WholePart(x)) >= ToFixedLimitDigits
    THEN NumberToStringLarge(x)
    ELSE LET frac == FracPart(x) \o Zeros(fractionDigits + 1)
             kept == StripLeadingZeros(
                         WholePart(x) \o SubSeq(frac, 1, fractionDigits))
             n == IF DigitVal[frac[fractionDigits + 1]] >= 5
                  THEN Incr(kept) ELSE kept
             m == IF Len(n) <= fractionDigits
                  THEN Zeros(fractionDigits + 1 - Len(n)) \o n
                  ELSE n
         IN IF fractionDigits = 0 THEN m
            ELSE SubSeq(m, 1, Len(m) - fractionDigits) \o <<".">>
                 \o SubSeq(m, Len(m) - fractionDigits + 1, Len(m))

\* parseFloat(utils.formatEther(b)).toFixed(5)
NativeFormat(b) == toFixed(parseFloat(formatEther(b)), FixedDigits)

----------------------------------------------------------------------------
(* Provider requests *)

\* A request that returns an amount: not issued, in flight, answered, failed.
NoReq == [st |-> "none", val |-> <<>>, cause |-> ""]
Pending == [st |-> "pending", val |-> <<>>, cause |-> ""]
Failed(cause) == [st |-> "err", val |-> <<>>, cause |-> cause]
Ok(v) == [st |-> "ok", val |-> v, cause |-> ""]

\* A decimals() request: its value is a small integer.
DecPending == [st |-> "pending", val |-> 0, cause |-> ""]
DecFailed(cause) == [st |-> "err", val |-> 0, cause |-> cause]
DecOk(d) == [st |-> "ok", val |-> d, cause |-> ""]

\* What makes a provider call fail: the provider cannot be reached (network,
\* credentials, rate limit), or a reference is no token contract of the chain.
ProviderErrors == {"ProviderUnavailable", "InvalidReference"}

\* On the fallback path the state space is kept small by one cause per
\* request kind: balanceOf reverts on a contract that is no token, and
\* decimals fails with the provider.
BalanceOfErrors == {"InvalidReference"}
DecimalsErrors == {"ProviderUnavailable"}

\* Two interleaved calls see one cause of failure.
ProviderErrorsOf(sc) ==
    IF sc = "pair" THEN {"ProviderUnavailable"} ELSE ProviderErrors

Settled(r) == r.st \in {"ok", "err"}

\* Native balances (in wei) a provider may report: 0, 1 wei, 1 coin,
\* 0.1234567 coin, 0.999999 coin, and 10^21 coins.
NativeWei == {
    <<"0">>,
    <<"1">>,
    <<"1">> \o Zeros(18),
    <<"1", "2", "3", "4", "5", "6", "7">> \o Zeros(11),
    <<"9", "9", "9", "9", "9", "9">> \o Zeros(12),
    <<"1">> \o Zeros(39) }

\* Two interleaved calls are answered with one native amount.
NativeWeiOf(sc) == IF sc = "pair" THEN {<<"1">> \o Zeros(18)} ELSE NativeWei

----------------------------------------------------------------------------
(* getBalance *)

\* Faulty variant: all four requests are issued up front (a joint fan-out).
NativeIssueAll(ix) == IF ix = 1 THEN Chain ELSE {}

\* The chains whose native-balance request is issued when the call reaches
\* its ix-th await: each await issues its own chain's request.
NativeIssueAt(ix) == {ChainOrder[ix]}

\* Faulty variant: a failed query is swallowed and read as a zero balance.
AwaitSwallow(r) ==
    [threw |-> FALSE, val |-> IF r.st = "err" THEN <<"0">> ELSE r.val,
     error |-> ""]

\* What `await` of a settled request gives the call: the value, or a throw.
AwaitOutcome(r) == [threw |-> r.st = "err", val |-> r.val, error |-> r.cause]

\* parseFloat(utils.formatEther(b)).toFixed(5), computed once for each
\* amount a provider answers with.
NativeFormatOf == [b \in NativeWei |-> NativeFormat(b)]

\* The record built from the four balances.
NetworkBalancesOf(balances) ==
    [i \in 1..Len(ChainOrder) |->
        [key |-> BalanceKey[ChainOrder[i]],
         value |-> NativeFormatOf[balances[ChainOrder[i]]]]]

IssueNative(chs) ==
    nativeReq' = [ch \in Chain |->
                    IF ch \in chs THEN Pending ELSE nativeReq[ch]]

\* The caller invokes getBalance: it runs up to its first await.
GetBalance ==
    /\ budget > 0
    /\ gbPc = "idle"
    /\ budget' = budget - 1
    /\ scenario' = scenario
    /\ IssueNative(NativeIssueAt(1))
    /\ gbPc' = "await"
    /\ gbIx' = 1
    /\ UNCHANGED <<gbBalances, networkBalances, gbError, tbVars>>

\* A provider answers a native-balance request, with an amount or an error.
ProviderNativeRespond(ch) ==
    /\ nativeReq[ch].st = "pending"
    /\ \E r \in {Failed(e) : e \in ProviderErrorsOf(scenario)}
                \cup {Ok(v) : v \in NativeWeiOf(scenario)} :
          nativeReq' = [nativeReq EXCEPT ![ch] = r]
    /\ UNCHANGED <<scenario, budget, gbPc, gbIx, gbBalances, networkBalances, gbError, tbVars>>

\* getBalance resumes after the await it is suspended at.
GbResume ==
    /\ gbPc = "await"
    /\ Settled(nativeReq[ChainOrder[gbIx]])
    /\ LET ch == ChainOrder[gbIx]
           got == AwaitOutcome(nativeReq[ch])
           balances == [gbBalances EXCEPT ![ch] = got.val]
       IN IF got.threw
          THEN /\ gbPc' = "failed"
               /\ gbError' = got.error
               /\ UNCHANGED <<gbIx, nativeReq, gbBalances, networkBalances>>
          ELSE /\ gbBalances' = balances
               /\ gbError' = gbError
               /\ IF gbIx < Len(ChainOrder)
                  THEN /\ gbIx' = gbIx + 1
                       /\ IssueNative(NativeIssueAt(gbIx + 1))
                       /\ UNCHANGED <<gbPc, networkBalances>>
                  ELSE /\ gbPc' = "done"
                       /\ networkBalances' = NetworkBalancesOf(balances)
                       /\ UNCHANGED <<gbIx, nativeReq>>
    /\ UNCHANGED <<scenario, budget, tbVars>>

----------------------------------------------------------------------------
(* getTokenBalance: inputs and provider answers *)

Address == {"0xA", "0xB"}

\* TokenContractAddress
TokenRef == [address : Address, chain : Chain]

\* The token reference lists a caller may pass.
TokenInputs == UNION {[1..n -> TokenRef] : n \in 0..MaxTokens}

\* tokenBalance: null is represented by the empty digit string, which is
\* the digit string of no amount.
Null == <<>>

\* Raw token balances a batch provider may report: 1 token at 18 digits, or null.
TokenWei == {<<"1">> \o Zeros(18)}

\* balanceOf answers on the fallback path: 1500000.
AvaxWei == {<<"1", "5">> \o Zeros(5)}

\* decimals() answers on the fallback path.
AvaxDecimals == {6, 18}

\* The wide answer sets: a batch provider may also report 1500000 (1.5 of a
\* token with 6 decimals), and balanceOf may also answer 0 and 10^18.
TokenWeiWide == TokenWei \cup {<<"1", "5">> \o Zeros(5)}
AvaxWeiWide == AvaxWei \cup {<<"0">>, <<"1">> \o Zeros(18)}

\* parseFloat(utils.formatEther(tokenBalance)), computed once for each amount
\* a batch provider answers with.
EtherAmountOf == [v \in TokenWeiWide |-> parseFloat(formatEther(v))]

\* utils.formatUnits(balance, decimals), computed once for each pair of
\* answers of a contract.
UnitsAmountOf ==
    [v \in AvaxWeiWide |-> [d \in AvaxDecimals |-> formatUnits(v, d)]]

TokenWeiOf(sc) == IF sc = "wide" THEN TokenWeiWide ELSE TokenWei
AvaxWeiOf(sc) == IF sc = "wide" THEN AvaxWeiWide ELSE AvaxWei

\* Outside the wide sets decimals() answers 6.
AvaxDecimalsOf(sc) == IF sc = "wide" THEN AvaxDecimals ELSE {6}

\* The lists a caller passes in each environment, given the number of
\* references the calls made so far were passed.
InputsOf(sc, passed) ==
    {tokens \in TokenInputs :
        Len(tokens) <= (CASE sc = "wide" -> MaxWideTokens
                          [] sc = "pair" -> MaxPairTokens - passed
                          [] OTHER -> MaxTokens)}

\* The invocations the environment makes.
BudgetOf(sc) == IF sc = "pair" THEN 2 ELSE 1

\* A batch request: its response is the provider's tokenBalances array.
BatchNone == [st |-> "none", resp |-> <<>>, cause |-> ""]
BatchPending == [st |-> "pending", resp |-> <<>>, cause |-> ""]
BatchFailed(cause) == [st |-> "err", resp |-> <<>>, cause |-> cause]
BatchOk(resp) == [st |-> "ok", resp |-> resp, cause |-> ""]

Range(s) == {s[i] : i \in 1..Len(s)}

\* The provider's TokenBalancesResponse for the requested addresses: one
\* entry per requested address, in request order, the balance (or null) the
\* provider holds for that contract.
TokenBalancesResponse(addresses, raw) ==
    [i \in 1..Len(addresses) |->
        [contractAddress |-> addresses[i], tokenBalance |-> raw[addresses[i]]]]

----------------------------------------------------------------------------
(* getTokenBalance: the program *)

\* Faulty variant: the router drops the chain filter.
TokensOfAll(tokens, chain) == [i \in 1..Len(tokens) |-> tokens[i].address]

\* Faulty variant: the router keeps each address of a chain once.
RECURSIVE TokensOfUnique(_, _)
TokensOfUnique(tokens, chain) ==
    IF tokens = <<>> THEN <<>>
    ELSE LET last == tokens[Len(tokens)]
             front == TokensOfUnique(SubSeq(tokens, 1, Len(tokens) - 1), chain)
         IN IF last.chain = chain /\ last.address \notin Range(front)
            THEN Append(front, last.address)
            ELSE front

\* tokenContractAddresses.filter(a => a.chain === chain).map(a => a.address)
RECURSIVE TokensOf(_, _)
TokensOf(tokens, chain) ==
    IF tokens = <<>> THEN <<>>
    ELSE (IF Head(tokens).chain = chain THEN <<Head(tokens).address>> ELSE <<>>)
         \o TokensOf(Tail(tokens), chain)

\* JavaScript values of the balance field.
NumberValue(text) == [type |-> "number", text |-> text]
StringValue(text) == [type |-> "string", text |-> text]

\* Faulty variant: a null balance is kept and reported as zero.
RECURSIVE processNullAsZero(_, _)
processNullAsZero(tokenBalances, chain) ==
    IF tokenBalances = <<>> THEN <<>>
    ELSE LET balance == Head(tokenBalances)
         IN <<[tokenAddress |-> balance.contractAddress,
               chain |-> chain,
               balance |-> NumberValue(
                   IF balance.tokenBalance = Null THEN <<"0">>
                   ELSE EtherAmountOf[balance.tokenBalance])]>>
            \o processNullAsZero(Tail(tokenBalances), chain)

\* Faulty variant: the surviving records come out in reverse order.
RECURSIVE processReversed(_, _)
processReversed(tokenBalances, chain) ==
    IF tokenBalances = <<>> THEN <<>>
    ELSE LET balance == Head(tokenBalances)
         IN processReversed(Tail(tokenBalances), chain)
            \o (IF balance.tokenBalance # Null
                THEN <<[tokenAddress |-> balance.contractAddress,
                        chain |-> chain,
                        balance |-> NumberValue(
                            EtherAmountOf[balance.tokenBalance])]>>
                ELSE <<>>)

\* Faulty variant: every surviving record is tagged 'Ethereum'.
RECURSIVE processTagEthereum(_, _)
processTagEthereum(tokenBalances, chain) ==
    IF tokenBalances = <<>> THEN <<>>
    ELSE LET balance == Head(tokenBalances)
         IN (IF balance.tokenBalance # Null
             THEN <<[tokenAddress |-> balance.contractAddress,
                     chain |-> "Ethereum",
                     balance |-> NumberValue(
                         EtherAmountOf[balance.tokenBalance])]>>
             ELSE <<>>)
            \o processTagEthereum(Tail(tokenBalances), chain)

\* processTokenBalancesResponse(tokenBalances, chain)
RECURSIVE processTokenBalancesResponse(_, _)
processTokenBalancesResponse(tokenBalances, chain) ==
    IF tokenBalances = <<>> THEN <<>>
    ELSE LET balance == Head(tokenBalances)
         IN (IF balance.tokenBalance # Null
             THEN <<[tokenAddress |-> balance.contractAddress,
                     chain |-> chain,
                     balance |-> NumberValue(
                         EtherAmountOf[balance.tokenBalance])]>>
             ELSE <<>>)
            \o processTokenBalancesResponse(Tail(tokenBalances), chain)

\* Faulty variant: every chain is fetched, also with no tokens.
ShouldFetchAlways(batch) == TRUE

\* The guard of a chain's block: the chain is fetched when it has tokens.
ShouldFetch(batch) == Len(batch) > 0

\* The first chain block from block `from` on whose guard holds, or 5 when
\* control reaches the return statement.
NextBlock(ct, from) ==
    IF \E ix \in from..Len(ChainOrder) : ShouldFetch(ct[ChainOrder[ix]])
    THEN CHOOSE ix \in from..Len(ChainOrder) :
            /\ ShouldFetch(ct[ChainOrder[ix]])
            /\ \A j \in from..(ix - 1) : ~ShouldFetch(ct[ChainOrder[j]])
    ELSE Len(ChainOrder) + 1

\* The promise of one contract's async callback in getAvalancheTokenBalances:
\* Promise.all of its two requests.
ContractRejected(r) == r.bal.st = "err" \/ r.dec.st = "err"
ContractFulfilled(r) == r.bal.st = "ok" /\ r.dec.st = "ok"

\* Promise.all(dataPromises)
AvaxRejected(reqs) == \E i \in 1..Len(reqs) : ContractRejected(reqs[i])
AvaxFulfilled(reqs) == \A i \in 1..Len(reqs) : ContractFulfilled(reqs[i])

\* Faulty variant: contracts with a zero balance are left out.
AvalancheDataNonZero(addresses, reqs) ==
    LET all == [i \in 1..Len(addresses) |->
                   [tokenAddress |-> addresses[i],
                    chain |-> "Avalanche",
                    balance |-> StringValue(
                        UnitsAmountOf[reqs[i].bal.val][reqs[i].dec.val])]]
        NonZero(record) == record.balance.text # <<"0", ".", "0">>
    IN SelectSeq(all, NonZero)

\* The records getAvalancheTokenBalances resolves with.
AvalancheData(addresses, reqs) ==
    [i \in 1..Len(addresses) |->
        [tokenAddress |-> addresses[i],
         chain |-> "Avalanche",
         balance |-> StringValue(UnitsAmountOf[reqs[i].bal.val][reqs[i].dec.val])]]

\* Faulty variant: the catch block logs the error and goes on.
CatchBlockSwallow == [rethrow |-> FALSE, message |-> ""]

\* The catch block of a chain: the error is logged and a new one thrown.
CatchBlock == [rethrow |-> TRUE, message |-> "Not valid contract_addresses"]

\* Faulty variant: the caught error itself is thrown on.
SurfacedCause(cause) == cause

\* The error a failed chain block surfaces to the caller, given the error it
\* caught: always the catch block's new Error.
SurfacedError(cause) == CatchBlock.message

\* Faulty variant: `result` is one module-level array, so a call appends to
\* what the other call has accumulated as well.
SharedResult(c) ==
    LET other == CHOOSE d \in Calls : d # c
    IN result[other] \o result[c]

\* The `result` a call accumulates into: a local of the invocation.
OwnResult(c) == result[c]

\* result = [...result, ...data]
Accumulate(res, data) == res \o data

\* Faulty variant: the first block reached starts every chain's fetch.
DispatchAll(ct, ix) ==
    IF ix = NextBlock(ct, 1)
    THEN {ch \in Chain : ShouldFetch(ct[ch])}
    ELSE {}

\* Faulty variant: a block calls again the providers of the blocks before it.
DispatchUpTo(ct, ix) ==
    {ChainOrder[j] : j \in {k \in 1..ix : ShouldFetch(ct[ChainOrder[k]])}}

\* The chains whose fetch is started when control reaches chain block ix:
\* each block calls its own chain's provider and awaits it there.
DispatchAt(ct, ix) == {ChainOrder[ix]}

\* Faulty variant: only the first contract's requests are issued up front.
AvaxIssueFirst(addresses) ==
    [i \in 1..Len(addresses) |->
        IF i = 1 THEN [bal |-> Pending, dec |-> DecPending]
        ELSE [bal |-> NoReq, dec |-> [st |-> "none", val |-> 0, cause |-> ""]]]

\* The requests getAvalancheTokenBalances issues before it awaits: balanceOf
\* and decimals of every contract.
AvaxIssue(addresses) ==
    [i \in 1..Len(addresses) |-> [bal |-> Pending, dec |-> DecPending]]

\* The state of a call that runs from chain block `from` with the given
\* accumulated result: it issues the next chain's requests and suspends, or
\* returns.
RunFrom(c, from, res) ==
    LET ct == chainTokens'[c]
        ix == NextBlock(ct, from)
    IN IF ix > Len(ChainOrder)
       THEN /\ pc' = [pc EXCEPT ![c] = "done"]
            /\ returned' = [returned EXCEPT ![c] = res]
            /\ result' = [result EXCEPT ![c] = res]
            /\ UNCHANGED <<chainIx, batchReq, avaxReq>>
       ELSE /\ pc' = [pc EXCEPT ![c] = "await"]
            /\ chainIx' = [chainIx EXCEPT ![c] = ix]
            /\ result' = [result EXCEPT ![c] = res]
            /\ returned' = returned
            /\ batchReq' = [batchReq EXCEPT ![c] =
                              [ch \in BatchChains |->
                                  IF ch \in DispatchAt(ct, ix) THEN BatchPending
                                  ELSE batchReq[c][ch]]]
            /\ avaxReq' = [avaxReq EXCEPT ![c] =
                              IF "Avalanche" \in DispatchAt(ct, ix)
                              THEN AvaxIssue(ct["Avalanche"])
                              ELSE avaxReq[c]]

\* A caller invokes getTokenBalance: the references are split by chain and
\* the call runs up to its first await (or returns).
GetTokenBalance(c) ==
    /\ budget > 0
    /\ pc[c] = "idle"
    /\ \A d \in Calls : d < c => pc[d] # "idle"
    /\ budget' = budget - 1
    /\ scenario' = scenario
    /\ \E tokens \in InputsOf(scenario,
                              Len(tokenContractAddresses[1])
                                  + Len(tokenContractAddresses[2])) :
          /\ tokenContractAddresses' = [tokenContractAddresses EXCEPT ![c] = tokens]
          /\ chainTokens' = [chainTokens EXCEPT ![c] =
                                [ch \in Chain |-> TokensOf(tokens, ch)]]
    /\ RunFrom(c, 1, <<>>)
    /\ UNCHANGED <<error, gbVars>>

\* A batch provider answers getTokenBalances: an error, or one entry per
\* requested address.
ProviderBatchRespond(c, ch) ==
    /\ batchReq[c][ch].st = "pending"
    /\ \E r \in {BatchFailed(e) : e \in ProviderErrorsOf(scenario)} \cup
                {BatchOk(TokenBalancesResponse(chainTokens[c][ch], raw)) :
                    raw \in [Range(chainTokens[c][ch]) ->
                               TokenWeiOf(scenario) \cup {Null}]} :
          batchReq' = [batchReq EXCEPT ![c][ch] = r]
    /\ UNCHANGED <<scenario, budget, gbVars, tokenContractAddresses, chainTokens, pc,
                   chainIx, result, returned, error, avaxReq>>

\* The Avalanche provider answers one contract's balanceOf.
ProviderBalanceOfRespond(c, i) ==
    /\ i \in 1..Len(avaxReq[c])
    /\ avaxReq[c][i].bal.st = "pending"
    /\ \E r \in {Failed(e) : e \in BalanceOfErrors}
                \cup {Ok(v) : v \in AvaxWeiOf(scenario)} :
          avaxReq' = [avaxReq EXCEPT ![c][i].bal = r]
    /\ UNCHANGED <<scenario, budget, gbVars, tokenContractAddresses, chainTokens, pc,
                   chainIx, result, returned, error, batchReq>>

\* The Avalanche provider answers one contract's decimals.
ProviderDecimalsRespond(c, i) ==
    /\ i \in 1..Len(avaxReq[c])
    /\ avaxReq[c][i].dec.st = "pending"
    /\ \E r \in {DecFailed(e) : e \in DecimalsErrors}
                \cup {DecOk(d) : d \in AvaxDecimalsOf(scenario)} :
          avaxReq' = [avaxReq EXCEPT ![c][i].dec = r]
    /\ UNCHANGED <<scenario, budget, gbVars, tokenContractAddresses, chainTokens, pc,
                   chainIx, result, returned, error, batchReq>>

\* The awaited promise of the chain block the call is suspended in.
BlockRejected(c) ==
    IF ChainOrder[chainIx[c]] \in BatchChains
    THEN batchReq[c][ChainOrder[chainIx[c]]].st = "err"
    ELSE AvaxRejected(avaxReq[c])

BlockFulfilled(c) ==
    IF ChainOrder[chainIx[c]] \in BatchChains
    THEN batchReq[c][ChainOrder[chainIx[c]]].st = "ok"
    ELSE AvaxFulfilled(avaxReq[c])

\* The error the rejected block's await throws into the catch block: the one
\* of the first rejection; any of them when several requests have failed.
BlockCauses(c) ==
    LET ch == ChainOrder[chainIx[c]]
    IN IF ch \in BatchChains THEN {batchReq[c][ch].cause}
       ELSE {avaxReq[c][i].bal.cause :
                i \in {j \in 1..Len(avaxReq[c]) : avaxReq[c][j].bal.st = "err"}}
            \cup {avaxReq[c][i].dec.cause :
                i \in {j \in 1..Len(avaxReq[c]) : avaxReq[c][j].dec.st = "err"}}

\* The records the fulfilled block appends.
BlockData(c) ==
    LET ch == ChainOrder[chainIx[c]]
    IN IF ch \in BatchChains
       THEN processTokenBalancesResponse(batchReq[c][ch].resp, ch)
       ELSE AvalancheData(chainTokens[c][ch], avaxReq[c])

\* getTokenBalance resumes after the await it is suspended at: the data is
\* appended and the next block runs, or the catch block throws.
TbResume(c) ==
    /\ pc[c] = "await"
    /\ BlockRejected(c) \/ BlockFulfilled(c)
    /\ chainTokens' = chainTokens
    /\ IF BlockRejected(c)
       THEN IF CatchBlock.rethrow
            THEN /\ pc' = [pc EXCEPT ![c] = "failed"]
                 /\ \E cause \in BlockCauses(c) :
                       error' = [error EXCEPT ![c] = SurfacedError(cause)]
                 /\ UNCHANGED <<chainIx, result, returned, batchReq, avaxReq>>
            ELSE /\ RunFrom(c, chainIx[c] + 1, OwnResult(c))
                 /\ error' = error
       ELSE /\ RunFrom(c, chainIx[c] + 1, Accumulate(OwnResult(c), BlockData(c)))
            /\ error' = error
    /\ UNCHANGED <<scenario, budget, gbVars, tokenContractAddresses>>

----------------------------------------------------------------------------
(* The system *)

InitOf(sc) ==
    /\ scenario = sc
    /\ budget = BudgetOf(sc)
    /\ gbPc = "idle"
    /\ gbIx = 1
    /\ nativeReq = [ch \in Chain |-> NoReq]
    /\ gbBalances = [ch \in Chain |-> <<>>]
    /\ networkBalances = <<>>
    /\ gbError = ""
    /\ tokenContractAddresses = [c \in Calls |-> <<>>]
    /\ chainTokens = [c \in Calls |-> [ch \in Chain |-> <<>>]]
    /\ pc = [c \in Calls |-> "idle"]
    /\ chainIx = [c \in Calls |-> 1]
    /\ result = [c \in Calls |-> <<>>]
    /\ returned = [c \in Calls |-> <<>>]
    /\ error = [c \in Calls |-> ""]
    /\ batchReq = [c \in Calls |-> [ch \in BatchChains |-> BatchNone]]
    /\ avaxReq = [c \in Calls |-> <<>>]

\* One invocation, of either operation.
Init == InitOf("single")

Next ==
    \/ GetBalance
    \/ \E ch \in Chain : ProviderNativeRespond(ch)
    \/ GbResume
    \/ \E c \in Calls : GetTokenBalance(c)
    \/ \E c \in Calls, ch \in BatchChains : ProviderBatchRespond(c, ch)
    \/ \E c \in Calls, i \in 1..MaxTokens : ProviderBalanceOfRespond(c, i)
    \/ \E c \in Calls, i \in 1..MaxTokens : ProviderDecimalsRespond(c, i)
    \/ \E c \in Calls : TbResume(c)

Spec == Init /\ [][Next]_vars

\* A provider responds to an issued call, or the event loop runs the
\* continuation of a call whose awaited promise has settled.
Progress ==
    \/ GbResume
    \/ \E ch \in Chain : ProviderNativeRespond(ch)
    \/ \E c \in Calls :
          \/ TbResume(c)
          \/ \E ch \in BatchChains : ProviderBatchRespond(c, ch)
          \/ \E i \in 1..MaxTokens :
                \/ ProviderBalanceOfRespond(c, i)
                \/ ProviderDecimalsRespond(c, i)

\* As long as a response or a continuation is due, one of them happens.
Fairness == WF_vars(Progress)

\* One invocation, the providers answering from the wide sets.
InitWide == InitOf("wide")
SpecWide == InitWide /\ [][Next]_vars

\* The same, every due response and continuation eventually happening.
SpecFair == SpecWide /\ Fairness

\* Two invocations, interleaved.
InitPair == InitOf("pair")
SpecPair == InitPair /\ [][Next]_vars

----------------------------------------------------------------------------
(* Vocabulary of the properties *)

\* The provider calls of call c for chain ch have been issued.
Issued(c, ch) ==
    IF ch \in BatchChains THEN batchReq[c][ch].st # "none"
    ELSE \E i \in 1..Len(avaxReq[c]) :
            avaxReq[c][i].bal.st # "none" \/ avaxReq[c][i].dec.st # "none"

\* A provider call of call c for chain ch is in flight.
InFlight(c, ch) ==
    IF ch \in BatchChains THEN batchReq[c][ch].st = "pending"
    ELSE \E i \in 1..Len(avaxReq[c]) :
            avaxReq[c][i].bal.st = "pending" \/ avaxReq[c][i].dec.st = "pending"

\* A provider call of call c for chain ch has failed.
ChainFailed(c, ch) ==
    IF ch \in BatchChains THEN batchReq[c][ch].st = "err"
    ELSE \E i \in 1..Len(avaxReq[c]) :
            avaxReq[c][i].bal.st = "err" \/ avaxReq[c][i].dec.st = "err"

\* Every provider call of call c for chain ch was answered with a value.
ChainSucceeded(c, ch) ==
    IF ch \in BatchChains THEN batchReq[c][ch].st = "ok"
    ELSE /\ avaxReq[c] # <<>>
         /\ \A i \in 1..Len(avaxReq[c]) :
               avaxReq[c][i].bal.st = "ok" /\ avaxReq[c][i].dec.st = "ok"

\* The chains the input of call c has references for.
InputChains(c) ==
    {tokenContractAddresses[c][i].chain : i \in 1..Len(tokenContractAddresses[c])}

----------------------------------------------------------------------------
(* Properties *)

\* C1: if a provider call of any chain fails during getTokenBalance, the
\* call does not return: no record reaches the caller, and the call is
\* either still suspended at the failed chain's await or has failed, also
\* when earlier chains had succeeded and their records were accumulated.
C1_FailureReturnsNothing ==
    \A c \in Calls :
        (\E ch \in Chain : ChainFailed(c, ch)) =>
            /\ pc[c] \in {"await", "failed"}
            /\ returned[c] = <<>>
            /\ pc[c] = "await" => ChainFailed(c, ChainOrder[chainIx[c]])

\* C1 witness: a call has failed after an earlier chain's records had been
\* accumulated, and nothing was returned.
C1_Witness ==
    \E c \in Calls :
        /\ pc[c] = "failed"
        /\ result[c] # <<>>
        /\ returned[c] = <<>>
        /\ \E ch \in Chain : ChainSucceeded(c, ch)

\* C2: if any one native-balance query fails, getBalance does not return a
\* record; a record is returned only when all four queries succeeded.
C2_NativeAllOrNothing ==
    /\ (\E ch \in Chain : nativeReq[ch].st = "err") =>
          /\ gbPc \in {"await", "failed"}
          /\ networkBalances = <<>>
          /\ gbPc = "await" => nativeReq[ChainOrder[gbIx]].st = "err"
    /\ (gbPc = "done" \/ networkBalances # <<>>) =>
          \A ch \in Chain : nativeReq[ch].st = "ok"

\* C2 witness: getBalance has failed although another chain's query succeeded.
C2_Witness ==
    /\ gbPc = "failed"
    /\ networkBalances = <<>>
    /\ \E ch \in Chain : nativeReq[ch].st = "ok"
    /\ \E ch \in Chain : nativeReq[ch].st = "err"

\* C3 as claimed: when getBalance awaits a response, the native-balance
\* requests of all four chains have been issued.
C3_AllIssuedBeforeAwait ==
    gbPc = "await" => \A ch \in Chain : nativeReq[ch].st # "none"

\* C3 amended: getBalance queries the chains one after the other, in the
\* order Ethereum, Arbitrum, Optimism, Avalanche: a chain's request is
\* issued only after the previous chain's query has succeeded, so at most
\* one native-balance request is in flight at any time.
C3_NativeSequential ==
    /\ \A i \in 2..Len(ChainOrder) :
          nativeReq[ChainOrder[i]].st # "none" =>
              nativeReq[ChainOrder[i - 1]].st = "ok"
    /\ Cardinality({ch \in Chain : nativeReq[ch].st = "pending"}) <= 1

\* C3 witness: the last chain's request is in flight, the three before it
\* answered.
C3_Witness ==
    /\ gbPc = "await"
    /\ nativeReq["Avalanche"].st = "pending"
    /\ \A ch \in BatchChains : nativeReq[ch].st = "ok"

\* C4 as claimed: when getTokenBalance awaits, the requests of every chain
\* present in the input have been issued.
C4_AllChainsIssuedBeforeAwait ==
    \A c \in Calls :
        pc[c] = "await" => \A ch \in InputChains(c) : Issued(c, ch)

\* C4 amended: getTokenBalance fetches the chains present in the input one
\* after the other, in the order Ethereum, Arbitrum, Optimism, Avalanche: a
\* chain's requests are issued only after every earlier chain of the input
\* has been fetched successfully, so requests of two chains are never in
\* flight at once.
C4_ChainsSequential ==
    \A c \in Calls :
        /\ \A i, j \in 1..Len(ChainOrder) :
              (i < j /\ Issued(c, ChainOrder[j])
                     /\ ChainOrder[i] \in InputChains(c)) =>
                  ChainSucceeded(c, ChainOrder[i])
        /\ Cardinality({ch \in Chain : InFlight(c, ch)}) <= 1

\* C4 witness: an input with references on two chains, the second chain in
\* flight after the first was answered.
C4_Witness ==
    \E c \in Calls :
        /\ pc[c] = "await"
        /\ Cardinality(InputChains(c)) >= 2
        /\ \E ch1, ch2 \in InputChains(c) :
              ch1 # ch2 /\ ChainSucceeded(c, ch1) /\ InFlight(c, ch2)

\* The addresses of the input references of call c on chain ch.
InputAddresses(c, ch) ==
    {tokenContractAddresses[c][i].address :
        i \in {j \in 1..Len(tokenContractAddresses[c]) :
                  tokenContractAddresses[c][j].chain = ch}}

\* The addresses whose raw balance the provider of chain ch reported null.
NullAddresses(c, ch) ==
    IF ch \in BatchChains
    THEN {batchReq[c][ch].resp[i].contractAddress :
            i \in {j \in 1..Len(batchReq[c][ch].resp) :
                      batchReq[c][ch].resp[j].tokenBalance = Null}}
    ELSE {}

\* The addresses of the records of chain ch in a sequence of records.
OutputAddresses(records, ch) ==
    {records[i].tokenAddress :
        i \in {j \in 1..Len(records) : records[j].chain = ch}}

\* How often the pair (address, chain) occurs in the input of call c.
InputCount(c, address, ch) ==
    Cardinality({i \in 1..Len(tokenContractAddresses[c]) :
                    /\ tokenContractAddresses[c][i].address = address
                    /\ tokenContractAddresses[c][i].chain = ch})

\* How often the pair (address, chain) occurs in a sequence of records.
OutputCount(records, address, ch) ==
    Cardinality({i \in 1..Len(records) :
                    records[i].tokenAddress = address /\ records[i].chain = ch})

\* C5: on success, for each chain, the addresses in the output tagged with
\* the chain are the input addresses of the chain minus those whose raw
\* balance was reported null; a null-balance reference never appears.
C5_NullBalancesDropped ==
    \A c \in Calls :
        pc[c] = "done" =>
            \A ch \in Chain :
                OutputAddresses(returned[c], ch) =
                    InputAddresses(c, ch) \ NullAddresses(c, ch)

\* C5 witness: a call succeeded on a chain whose provider reported null for
\* one address and a balance for another.
C5_Witness ==
    \E c \in Calls, ch \in BatchChains :
        /\ pc[c] = "done"
        /\ NullAddresses(c, ch) # {}
        /\ OutputAddresses(returned[c], ch) # {}

C7_OnlyChainsOfTheInput ==
    \A c \in Calls :
        /\ \A ch \in Chain : Issued(c, ch) => ch \in InputChains(c)
        /\ (pc[c] # "idle" /\ tokenContractAddresses[c] = <<>>) =>
              /\ pc[c] = "done"
              /\ returned[c] = <<>>
              /\ error[c] = ""
              /\ \A ch \in Chain : ~Issued(c, ch)

\* C7 witness: getTokenBalance of the empty list has returned.
C7_Witness ==
    \E c \in Calls : pc[c] = "done" /\ tokenContractAddresses[c] = <<>>

\* The addresses of the input references of chain ch whose balance is not
\* null, in input order.
RECURSIVE ExpectedOfChain(_, _, _)
ExpectedOfChain(tokens, ch, nulls) ==
    IF tokens = <<>> THEN <<>>
    ELSE (IF Head(tokens).chain = ch /\ Head(tokens).address \notin nulls
          THEN <<Head(tokens).address>> ELSE <<>>)
         \o ExpectedOfChain(Tail(tokens), ch, nulls)

\* The addresses of the records of chain ch, in output order.
RECURSIVE AddressesOfChain(_, _)
AddressesOfChain(records, ch) ==
    IF records = <<>> THEN <<>>
    ELSE (IF Head(records).chain = ch
          THEN <<Head(records).tokenAddress>> ELSE <<>>)
         \o AddressesOfChain(Tail(records), ch)

\* C8: on success the records of one chain are contiguous, and within each
\* chain they are that chain's input references in input order, the
\* null-balance ones removed.
C8_GroupedInInputOrder ==
    \A c \in Calls :
        pc[c] = "done" =>
            /\ \A i, j, k \in 1..Len(returned[c]) :
                  (i < j /\ j < k /\ returned[c][i].chain = returned[c][k].chain)
                      => returned[c][j].chain = returned[c][i].chain
            /\ \A ch \in Chain :
                  AddressesOfChain(returned[c], ch) =
                      ExpectedOfChain(tokenContractAddresses[c], ch,
                                      NullAddresses(c, ch))

\* C8 witness: the input interleaves two chains (Ethereum, Avalanche,
\* Ethereum, with different Ethereum addresses) and all three records are
\* returned, the Ethereum ones first.
C8_Witness ==
    \E c \in Calls :
        /\ pc[c] = "done"
        /\ Len(tokenContractAddresses[c]) = 3
        /\ tokenContractAddresses[c][1].chain = "Ethereum"
        /\ tokenContractAddresses[c][2].chain = "Avalanche"
        /\ tokenContractAddresses[c][3].chain = "Ethereum"
        /\ tokenContractAddresses[c][1].address # tokenContractAddresses[c][3].address
        /\ Len(returned[c]) = 3
        /\ returned[c][2].chain = "Ethereum"
        /\ returned[c][3].chain = "Avalanche"

\* A decimal string with exactly five fractional digits.
HasFiveFractionDigits(s) ==
    /\ Len(s) >= FixedDigits + 2
    /\ s[Len(s) - FixedDigits] = "."
    /\ \A i \in 1..Len(s) : i # Len(s) - FixedDigits => s[i] \in Digit

\* C9: whenever getBalance succeeds, its result has exactly the entries eth,
\* arb, op and avax, each with exactly 5 fractional digits, and a zero
\* balance appears as 0.00000.
C9_FourEntriesFiveDigits ==
    gbPc = "done" =>
        /\ Len(networkBalances) = 4
        /\ {networkBalances[i].key : i \in 1..Len(networkBalances)}
              = {"eth", "arb", "op", "avax"}
        /\ \A i \in 1..Len(networkBalances) :
              /\ HasFiveFractionDigits(networkBalances[i].value)
              /\ gbBalances[ChainOrder[i]] = <<"0">> =>
                    networkBalances[i].value = <<"0", ".", "0", "0", "0", "0", "0">>

\* C10: on the Avalanche path every contract's balanceOf and decimals
\* requests are issued before the call awaits any of them, and one
\* contract's failure cancels nothing: a request in flight stays answerable
\* and an answered one keeps its answer, also after the call has failed.
C10_AvalancheRequestsIndependent ==
    /\ [](\A c \in Calls :
            (pc[c] = "await" /\ ChainOrder[chainIx[c]] = "Avalanche") =>
                /\ Len(avaxReq[c]) =
                      Cardinality({i \in 1..Len(tokenContractAddresses[c]) :
                          tokenContractAddresses[c][i].chain = "Avalanche"})
                /\ \A i \in 1..Len(avaxReq[c]) :
                      avaxReq[c][i].bal.st # "none" /\ avaxReq[c][i].dec.st # "none")
    /\ [](\A c \in Calls : \A i \in 1..Len(avaxReq[c]) :
            /\ avaxReq[c][i].bal.st = "pending" =>
                  ENABLED ProviderBalanceOfRespond(c, i)
            /\ avaxReq[c][i].dec.st = "pending" =>
                  ENABLED ProviderDecimalsRespond(c, i))
    /\ [][\A c \in Calls :
            avaxReq[c] # <<>> =>
                /\ Len(avaxReq'[c]) = Len(avaxReq[c])
                /\ \A i \in 1..Len(avaxReq[c]) :
                      /\ avaxReq'[c][i].bal.st # "none"
                      /\ avaxReq'[c][i].dec.st # "none"
                      /\ avaxReq[c][i].bal.st # "pending" =>
                            avaxReq'[c][i].bal = avaxReq[c][i].bal
                      /\ avaxReq[c][i].dec.st # "pending" =>
                            avaxReq'[c][i].dec = avaxReq[c][i].dec]_vars

\* C10 witness: the call has failed on one Avalanche contract's request
\* while a sibling contract's request is still in flight and can be
\* answered.
C10_Witness ==
    \E c \in Calls : \E i, j \in 1..Len(avaxReq[c]) :
        /\ pc[c] = "failed"
        /\ i # j
        /\ ContractRejected(avaxReq[c][i])
        /\ ~ContractRejected(avaxReq[c][j])
        /\ avaxReq[c][j].bal.st = "pending"
        /\ ENABLED ProviderBalanceOfRespond(c, j)

\* The causes of the provider calls of call c that have failed.
FailureCauses(c) ==
    {batchReq[c][ch].cause : ch \in {x \in BatchChains : batchReq[c][x].st = "err"}}
    \cup {avaxReq[c][i].bal.cause :
            i \in {j \in 1..Len(avaxReq[c]) : avaxReq[c][j].bal.st = "err"}}
    \cup {avaxReq[c][i].dec.cause :
            i \in {j \in 1..Len(avaxReq[c]) : avaxReq[c][j].dec.st = "err"}}

\* C11: every failure of getTokenBalance surfaces as the one generic error
\* 'Not valid contract_addresses', whichever chain failed and whatever the
\* cause, and never as the cause itself; a call that has not failed has
\* raised no error. A failure of getBalance surfaces as the error of the
\* provider whose query failed.
C11_GenericErrorOnly ==
    /\ \A c \in Calls :
          /\ pc[c] = "failed" =>
                /\ error[c] = "Not valid contract_addresses"
                /\ error[c] \notin FailureCauses(c)
                /\ FailureCauses(c) # {}
          /\ pc[c] # "failed" => error[c] = ""
    /\ gbPc = "failed" =>
          /\ nativeReq[ChainOrder[gbIx]].st = "err"
          /\ gbError = nativeReq[ChainOrder[gbIx]].cause
          /\ gbError \in ProviderErrors
    /\ gbPc # "failed" => gbError = ""

\* A call has failed on Optimism with an invalid reference, after Ethereum
\* had answered.
C11_Witness ==
    \E c \in Calls :
        /\ pc[c] = "failed"
        /\ batchReq[c]["Ethereum"].st = "ok"
        /\ batchReq[c]["Optimism"].st = "err"
        /\ batchReq[c]["Optimism"].cause = "InvalidReference"
        /\ error[c] = "Not valid contract_addresses"

\* C12: every record getTokenBalance returns, for every chain including
\* Avalanche, has a balance of the number kind, as the declared record type
\* AccountCurrentTokenBalance says.
C12_BalanceIsNumber ==
    \A c \in Calls :
        \A i \in 1..Len(returned[c]) :
            /\ DOMAIN returned[c][i] = {"tokenAddress", "chain", "balance"}
            /\ returned[c][i].balance.type = "number"

\* The place of chain ch in the order the chain blocks are written in.
OrderOf(ch) == CHOOSE ix \in 1..Len(ChainOrder) : ChainOrder[ix] = ch

\* C13: getTokenBalance handles the chains in the order Ethereum, Arbitrum,
\* Optimism, Avalanche; a chain whose fetch has failed is the chain the call
\* stops at: the call is suspended at it or has failed there, it never goes
\* on to a later chain, and no provider call of any later chain is ever
\* issued.
C13_FailureStopsLaterChains ==
    \A c \in Calls :
        /\ \A ch \in Chain :
              Issued(c, ch) => OrderOf(ch) <= chainIx[c]
        /\ \A ch \in Chain :
              ChainFailed(c, ch) =>
                  /\ chainIx[c] = OrderOf(ch)
                  /\ pc[c] \in {"await", "failed"}
                  /\ \A later \in Chain :
                        OrderOf(later) > OrderOf(ch) => ~Issued(c, later)
        /\ pc[c] = "failed" => ChainFailed(c, ChainOrder[chainIx[c]])

\* A call with references on Ethereum, Optimism and Avalanche has failed on
\* Ethereum: nothing was issued for the two later chains.
C13_Witness ==
    \E c \in Calls :
        /\ pc[c] = "failed"
        /\ InputChains(c) = {"Ethereum", "Optimism", "Avalanche"}
        /\ ChainFailed(c, "Ethereum")
        /\ ~Issued(c, "Optimism")
        /\ ~Issued(c, "Avalanche")

\* A request over one step: it is issued only when it did not exist, and once
\* settled it stays as it settled.
IssuedAtMostOnce(before, after) ==
    /\ before.st \in {"ok", "err"} => after = before
    /\ before.st = "pending" => after.st \in {"pending", "ok", "err"}

\* C14: no retries. Within one getTokenBalance call the provider of each batch
\* chain is called at most once and each Avalanche contract gets at most one
\* balanceOf and one decimals request; within one getBalance call each
\* chain's native-balance query is issued at most once. No request is issued
\* again after it was answered or has failed, and none is issued by a call
\* that has failed.
C14_NoRetries ==
    [][ /\ \A c \in Calls :
              /\ \A ch \in BatchChains :
                    IssuedAtMostOnce(batchReq[c][ch], batchReq'[c][ch])
              /\ avaxReq[c] # <<>> =>
                    /\ Len(avaxReq'[c]) = Len(avaxReq[c])
                    /\ \A i \in 1..Len(avaxReq[c]) :
                          /\ IssuedAtMostOnce(avaxReq[c][i].bal,
                                              avaxReq'[c][i].bal)
                          /\ IssuedAtMostOnce(avaxReq[c][i].dec,
                                              avaxReq'[c][i].dec)
              /\ pc[c] = "failed" =>
                    /\ \A ch \in Chain : Issued(c, ch)' => Issued(c, ch)
                    /\ pc'[c] = "failed"
        /\ \A ch \in Chain : IssuedAtMostOnce(nativeReq[ch], nativeReq'[ch])
        /\ gbPc = "failed" =>
              \A ch \in Chain : nativeReq'[ch].st = "none" <=> nativeReq[ch].st = "none"
      ]_vars

\* A call has failed on Avalanche: one contract's balanceOf has failed and
\* stays failed, while another contract's requests were answered.
C14_Witness ==
    \E c \in Calls :
        /\ pc[c] = "failed"
        /\ \E i, j \in 1..Len(avaxReq[c]) :
              /\ avaxReq[c][i].bal.st = "err"
              /\ ContractFulfilled(avaxReq[c][j])
        /\ batchReq[c]["Ethereum"].st = "ok"

\* The places of the input of call c whose reference is tagged with chain ch.
Positions(c, ch) ==
    {i \in 1..Len(tokenContractAddresses[c]) :
        tokenContractAddresses[c][i].chain = ch}

\* The place in the batch of chain ch of the reference at place i of the
\* input, in a stable partition.
Rank(c, ch, i) == Cardinality({j \in Positions(c, ch) : j <= i})

\* C15: the router is a stable partition by chain. The batch of each chain
\* holds exactly the addresses of the input references tagged with that
\* chain, in input order and with duplicates kept; every input reference
\* lands in exactly one batch; and the Avalanche path issues its requests for
\* exactly the Avalanche batch.
C15_StablePartition ==
    \A c \in Calls :
        /\ \A ch \in Chain :
              /\ Len(chainTokens[c][ch]) = Cardinality(Positions(c, ch))
              /\ \A i \in Positions(c, ch) :
                    chainTokens[c][ch][Rank(c, ch, i)]
                        = tokenContractAddresses[c][i].address
        /\ \A i \in 1..Len(tokenContractAddresses[c]) :
              Cardinality({ch \in Chain : i \in Positions(c, ch)}) = 1
        /\ Len(chainTokens[c]["Ethereum"]) + Len(chainTokens[c]["Arbitrum"])
              + Len(chainTokens[c]["Optimism"]) + Len(chainTokens[c]["Avalanche"])
              = Len(tokenContractAddresses[c])
        /\ avaxReq[c] # <<>> =>
              Len(avaxReq[c]) = Len(chainTokens[c]["Avalanche"])

\* A call was passed the same Ethereum address twice with an Avalanche
\* reference between them: the Ethereum batch holds the address twice.
C15_Witness ==
    \E c \in Calls :
        /\ pc[c] # "idle"
        /\ Len(tokenContractAddresses[c]) = 3
        /\ tokenContractAddresses[c][1] = tokenContractAddresses[c][3]
        /\ tokenContractAddresses[c][1].chain = "Ethereum"
        /\ tokenContractAddresses[c][2].chain = "Avalanche"
        /\ Len(chainTokens[c]["Ethereum"]) = 2
        /\ Len(chainTokens[c]["Avalanche"]) = 1

\* The addresses the provider of chain ch produced a balance for, in the
\* order of its answer: the non-null entries of a batch chain's response,
\* every contract of the Avalanche batch.
ProducedBy(c, ch) ==
    IF ch \in BatchChains
    THEN LET HasBalance(entry) == entry.tokenBalance # Null
             kept == SelectSeq(batchReq[c][ch].resp, HasBalance)
         IN [i \in 1..Len(kept) |-> kept[i].contractAddress]
    ELSE chainTokens[c][ch]

\* C16: every record of the output (and of the accumulating result) is tagged
\* with one chain of the closed set, and the records tagged with a chain are
\* the ones that chain's provider produced for the call's sub-batch of that
\* chain: a record never carries the tag of a chain whose provider did not
\* produce it.
C16_TaggedWithProducingChain ==
    \A c \in Calls :
        \A records \in {result[c], returned[c]} :
            /\ \A i \in 1..Len(records) : records[i].chain \in Chain
            /\ \A ch \in Chain :
                  AddressesOfChain(records, ch) # <<>> =>
                      /\ ChainSucceeded(c, ch)
                      /\ AddressesOfChain(records, ch) = ProducedBy(c, ch)

\* A call has returned a record produced by the Arbitrum provider and a
\* record produced by the Avalanche contracts, each under its own tag.
C16_Witness ==
    \E c \in Calls :
        /\ pc[c] = "done"
        /\ \E i, j \in 1..Len(returned[c]) :
              /\ returned[c][i].chain = "Arbitrum"
              /\ returned[c][j].chain = "Avalanche"
        /\ ~Issued(c, "Ethereum")

\* The records of chain ch, in output order.
RecordsOfChain(records, ch) ==
    LET OfChain(record) == record.chain = ch
    IN SelectSeq(records, OfChain)

\* C17: when the Avalanche sub-batch has succeeded the call returns, and its
\* output holds exactly one record per Avalanche reference of the input, in
\* input order and with the input address; a contract whose balanceOf
\* answered 0 has its record, with balance "0.0".
C17_OneRecordPerAvalancheReference ==
    \A c \in Calls :
        ChainSucceeded(c, "Avalanche") =>
            /\ pc[c] \in {"await", "done"}
            /\ pc[c] = "done" =>
                  LET out == RecordsOfChain(returned[c], "Avalanche")
                  IN /\ Len(out) = Cardinality(Positions(c, "Avalanche"))
                     /\ \A i \in Positions(c, "Avalanche") :
                           LET k == Rank(c, "Avalanche", i)
                           IN /\ out[k].tokenAddress
                                    = tokenContractAddresses[c][i].address
                              /\ avaxReq[c][k].bal.val = <<"0">> =>
                                    out[k].balance.text = <<"0", ".", "0">>

\* A call with two Avalanche references, the first of zero balance, has
\* returned both records.
C17_Witness ==
    \E c \in Calls :
        /\ pc[c] = "done"
        /\ Len(avaxReq[c]) = 2
        /\ avaxReq[c][1].bal.val = <<"0">>
        /\ avaxReq[c][2].bal.val # <<"0">>
        /\ Len(RecordsOfChain(returned[c], "Avalanche")) = 2
        /\ returned[c][1].balance.text = <<"0", ".", "0">>

\* The decimal amount of a smallest-unit balance at the given number of
\* fractional digits, for the balances the providers answer with.
AmountOf(raw, digits) ==
    CASE raw = <<"0">> -> <<"0">>
      [] raw = <<"1">> \o Zeros(18) /\ digits = 18 -> <<"1">>
      [] raw = <<"1">> \o Zeros(18) /\ digits = 6 -> <<"1">> \o Zeros(12)
      [] raw = <<"1", "5">> \o Zeros(5) /\ digits = 6 -> <<"1", ".", "5">>
      [] raw = <<"1", "5">> \o Zeros(5) /\ digits = 18 ->
            <<"0", ".">> \o Zeros(11) \o <<"1", "5">>

\* The record balances of the batch chains are the raw balances at 18
\* fractional digits, whatever the token.
BatchAtEighteenDigits ==
    \A c \in Calls :
        pc[c] = "done" =>
            \A ch \in BatchChains :
                LET out == RecordsOfChain(returned[c], ch)
                    HasBalance(entry) == entry.tokenBalance # Null
                    kept == SelectSeq(batchReq[c][ch].resp, HasBalance)
                IN /\ Len(out) = Len(kept)
                   /\ \A k \in 1..Len(out) :
                         out[k].balance
                             = NumberValue(AmountOf(kept[k].tokenBalance, 18))

\* The record balances of Avalanche have the value of the raw balance at the
\* decimals the contract reported.
AvalancheAtReportedDecimals ==
    \A c \in Calls :
        pc[c] = "done" =>
            LET out == RecordsOfChain(returned[c], "Avalanche")
            IN /\ Len(out) = Len(avaxReq[c])
               /\ \A k \in 1..Len(out) :
                     parseFloat(out[k].balance.text)
                         = AmountOf(avaxReq[c][k].bal.val, avaxReq[c][k].dec.val)

\* A raw balance of 10^18 at 18 digits is exactly 1 in every token record.
TokenOneExactly ==
    \A c \in Calls :
        pc[c] = "done" =>
            /\ \A ch \in BatchChains :
                  LET out == RecordsOfChain(returned[c], ch)
                      HasBalance(entry) == entry.tokenBalance # Null
                      kept == SelectSeq(batchReq[c][ch].resp, HasBalance)
                  IN \A k \in 1..Len(out) :
                        kept[k].tokenBalance = <<"1">> \o Zeros(18) =>
                            out[k].balance.text = <<"1">>
            /\ LET out == RecordsOfChain(returned[c], "Avalanche")
               IN \A k \in 1..Len(out) :
                     (/\ avaxReq[c][k].bal.val = <<"1">> \o Zeros(18)
                      /\ avaxReq[c][k].dec.val = 18) =>
                         out[k].balance.text = <<"1">>

\* A native balance of 10^18 is reported as 1.00000.
NativeOneFiveDigits ==
    gbPc = "done" =>
        \A i \in 1..Len(ChainOrder) :
            gbBalances[ChainOrder[i]] = <<"1">> \o Zeros(18) =>
                networkBalances[i].value = <<"1", ".", "0", "0", "0", "0", "0">>

\* C18: the balance of a record of a batch chain is the raw balance at 18
\* fractional digits whatever the token, the balance of an Avalanche record
\* is the raw balance at the decimals the contract reported, 10^18 at 18
\* digits is exactly 1 in a token record, and the native path gives 10^18 as
\* 1.00000.
C18_ConversionDigits ==
    /\ BatchAtEighteenDigits
    /\ AvalancheAtReportedDecimals
    /\ TokenOneExactly
    /\ NativeOneFiveDigits

Terminal == {"done", "failed"}

\* A provider call of call c has not responded yet.
Unanswered(c) == \E ch \in Chain : InFlight(c, ch)

\* Every call that was made eventually reaches a terminal state.
EventuallyTerminal ==
    /\ \A c \in Calls : (pc[c] = "await") ~> (pc[c] \in Terminal)
    /\ (gbPc = "await") ~> (gbPc \in Terminal)

\* A terminal state is Done with a result and no error, or Failed with an
\* error and no result, and it is never left.
TerminalForGood ==
    /\ [](\A c \in Calls :
            /\ pc[c] = "done" => error[c] = ""
            /\ pc[c] = "failed" => error[c] # "" /\ returned[c] = <<>>)
    /\ [](/\ gbPc = "done" => gbError = "" /\ networkBalances # <<>>
          /\ gbPc = "failed" => gbError # "" /\ networkBalances = <<>>)
    /\ [][ /\ \A c \in Calls :
                 pc[c] \in Terminal =>
                     /\ pc'[c] = pc[c]
                     /\ returned'[c] = returned[c]
                     /\ error'[c] = error[c]
           /\ gbPc \in Terminal =>
                 /\ gbPc' = gbPc
                 /\ networkBalances' = networkBalances
                 /\ gbError' = gbError ]_vars

\* C19 as claimed: provided every issued provider call eventually responds,
\* every getTokenBalance call and every getBalance call eventually reaches
\* exactly one terminal state, Done or Failed, and never leaves it; and a
\* call stays pending as long as a provider call of it has not responded:
\* no call is in a terminal state with a provider call of it unanswered.
C19_PendingWhileUnanswered ==
    /\ EventuallyTerminal
    /\ TerminalForGood
    /\ [](\A c \in Calls : pc[c] \in Terminal => ~Unanswered(c))
    /\ [](gbPc \in Terminal => \A ch \in Chain : nativeReq[ch].st # "pending")

\* C19 amended: termination as claimed; a call leaves its await only when
\* the awaited fetch has settled, so it stays pending for as long as the
\* awaited provider call does not respond and no sibling request fails; the
\* one way a call ends with a provider call unanswered is a failure on
\* Avalanche, where the rejection of one contract's request fails the call
\* while other Avalanche requests are still in flight.
C19_TerminatesWhenAnswered ==
    /\ EventuallyTerminal
    /\ TerminalForGood
    /\ [][ /\ \A c \in Calls :
                 (pc[c] = "await" /\ pc'[c] # "await") =>
                     /\ BlockRejected(c) \/ BlockFulfilled(c)
                     /\ pc'[c] = "failed" <=> BlockRejected(c)
           /\ (gbPc = "await" /\ gbPc' # "await") =>
                 Settled(nativeReq[ChainOrder[gbIx]]) ]_vars
    /\ [](\A c \in Calls :
            (pc[c] \in Terminal /\ Unanswered(c)) =>
                /\ pc[c] = "failed"
                /\ ChainOrder[chainIx[c]] = "Avalanche"
                /\ AvaxRejected(avaxReq[c])
                /\ \A ch \in BatchChains : ~InFlight(c, ch))
    /\ [](gbPc \in Terminal => \A ch \in Chain : nativeReq[ch].st # "pending")

\* A call with references on two chains has returned, every provider call
\* of it answered with a value.
C19_Witness ==
    \E c \in Calls :
        /\ pc[c] = "done"
        /\ Cardinality(InputChains(c)) = 2
        /\ \A ch \in InputChains(c) : ChainSucceeded(c, ch)
        /\ ~Unanswered(c)

\* What chain ch contributes to the output of call c when the call runs
\* alone: the records made of the call's own provider answers for the chain.
AloneRecordsOf(c, ch) ==
    IF ~ShouldFetch(chainTokens[c][ch]) THEN <<>>
    ELSE IF ch \in BatchChains
         THEN processTokenBalancesResponse(batchReq[c][ch].resp, ch)
         ELSE AvalancheData(chainTokens[c][ch], avaxReq[c])

\* The output of call c when it runs alone against its provider answers.
AloneRecords(c) ==
    AloneRecordsOf(c, "Ethereum") \o AloneRecordsOf(c, "Arbitrum")
        \o AloneRecordsOf(c, "Optimism") \o AloneRecordsOf(c, "Avalanche")

\* C20: calls do not interfere. Whatever another call does in between, a
\* call that has ended has the outcome it has when run alone against the
\* same provider answers: it has failed, with the generic error and no
\* records, exactly if one of its own provider calls failed, and otherwise
\* it returns the records of its own answers, chain by chain; until then it
\* has accumulated a prefix of those records.
C20_OutcomeOfOwnAnswers ==
    \A c \in Calls :
        /\ pc[c] = "failed" =>
              /\ \E ch \in InputChains(c) : ChainFailed(c, ch)
              /\ returned[c] = <<>>
              /\ error[c] = "Not valid contract_addresses"
        /\ pc[c] = "done" =>
              /\ \A ch \in InputChains(c) : ChainSucceeded(c, ch)
              /\ returned[c] = AloneRecords(c)
              /\ error[c] = ""
        /\ pc[c] = "await" =>
              /\ \A ch \in Chain :
                    OrderOf(ch) < chainIx[c] =>
                        RecordsOfChain(result[c], ch) = AloneRecordsOf(c, ch)
              /\ \A i \in 1..Len(result[c]) :
                    OrderOf(result[c][i].chain) < chainIx[c]

\* Two calls were passed the same reference; the second has returned its
\* record while the first, started before it, is still suspended and has
\* accumulated nothing.
C20_Witness ==
    /\ pc[1] = "await"
    /\ pc[2] = "done"
    /\ tokenContractAddresses[1] = tokenContractAddresses[2]
    /\ returned[2] # <<>>
    /\ result[1] = <<>>

====
